---- MODULE Spec2Model ----
(***************************************************************************)
(* bw_projects.project.ProjectManager: the project registry (one row per  *)
(* project in the ProjectDataset table), the directory trees under the    *)
(* base data and base logs directories, and the current-project pointer.  *)
(*                                                                         *)
(* A path is a record [type, parts]: type is "str" or "Path" (the Python  *)
(* type of the object the manager holds, which decides whether the `/`    *)
(* operator is defined on it) and parts is the sequence of its            *)
(* components.  The filesystem is the set of directories and the set of   *)
(* regular files that exist, each a sequence of components.                *)
(***************************************************************************)
EXTENDS Naturals, Sequences, FiniteSets, TLC

VARIABLES
    base_data_dir,   \* self._base_data_dir
    base_logs_dir,   \* self._base_logs_dir
    registry,        \* rows of ProjectDataset, in rowid order
    project_name,    \* self._project_name
    read_only,       \* self.read_only
    dirs,            \* directories that exist on disk
    files,           \* regular files that exist on disk
    calls,           \* number of calls made on the manager so far
    completed,       \* every call made so far returned (none raised)
    pre,             \* the manager's state before the last call
    last             \* the last call: operation, arguments, exception, return value

vars == <<base_data_dir, base_logs_dir, registry, project_name, read_only,
          dirs, files, calls, completed, pre, last>>

(***************************************************************************)
(* Values                                                                  *)
(***************************************************************************)
\* The runs explored make at most MaxCalls calls on one manager.
MaxCalls == 4

\* Python's None (no project name / no argument given).
None == "<None>"

\* Project names the callers pass; all are non-empty strings.
Names == {"default", "alpha", "Beta X"}

\* Keyword arguments stored as the attributes of a record: sets of <<key, value>>.
NoAttributes == {}
Attributes == {NoAttributes, {<<"k", "v">>}}

\* ProjectManager._basic_directories
_basic_directories == <<"backups", "intermediate", "lci", "processed">>

\* The entry copy_project tells copytree to ignore.
WriteLock == "write-lock"

\* Names callers pass to request_directory: the one name copy_project treats
\* specially.
RequestNames == {WriteLock}

\* Constructor inputs: the folder argument, BRIGHTWAY_DIR, and the platform
\* that appdirs resolves the per-user directories for.
Folders == {None, "F"}
EnvDirs == {None, "E"}
Platforms == {"linux", "win32"}

\* Values of BRIGHTWAY_OUTPUT_DIR when output_dir is read: unset, a directory
\* that exists, a path that does not exist.
ExistingOutputDir == "O"
MissingOutputDir == "Q"
OutputDirs == {None, ExistingOutputDir, MissingOutputDir}

(***************************************************************************)
(* bw_projects.filesystem.safe_filename: the directory name of a project  *)
(* name.  Deterministic and collision-free on the names used here; it     *)
(* returns a str.                                                          *)
(***************************************************************************)
safe_filename(name) ==
    CASE name = "Beta X" -> "beta-x"
      [] OTHER -> name

(***************************************************************************)
(* Paths and the filesystem                                                *)
(***************************************************************************)
StrPath(parts) == [type |-> "str", parts |-> parts]
PurePath(parts) == [type |-> "Path", parts |-> parts]

\* Path(p): pathlib.Path of a str or of a Path.
Path(p) == PurePath(p.parts)

\* p / name for a pathlib.Path p.
Join(p, name) == PurePath(Append(p.parts, name))

\* `a / b` with b a str is defined only when a is a pathlib.Path.
CanDiv(p) == p.type = "Path"

IsPrefix(p, q) == Len(p) <= Len(q) /\ SubSeq(q, 1, Len(p)) = p

Prefixes(p) == {SubSeq(p, 1, i) : i \in 1..Len(p)}

exists(fs, p) == p \in fs.dirs \/ p \in fs.files

is_dir(fs, p) == p \in fs.dirs

\* os.makedirs(p, exist_ok=True): FileExistsError when p or one of its parents
\* is a regular file, otherwise p and all its parents are directories.
makedirs_fails(fs, p) == \E q \in Prefixes(p) : q \in fs.files

makedirs(fs, p) == [fs EXCEPT !.dirs = @ \cup Prefixes(p)]

\* shutil.rmtree(p)
rmtree(fs, p) ==
    [dirs |-> {q \in fs.dirs : ~IsPrefix(p, q)},
     files |-> {q \in fs.files : ~IsPrefix(p, q)}]

\* os.listdir(p): the names of the immediate children of p.
listdir(fs, p) ==
    {q[Len(p) + 1] : q \in {r \in fs.dirs \cup fs.files :
                               IsPrefix(p, r) /\ Len(r) = Len(p) + 1}}

\* The part of q below src, re-rooted at dst.
Rebase(src, dst, q) == dst \o SubSeq(q, Len(src) + 1, Len(q))

\* An entry below src is copied unless it, or a directory on the way to it,
\* has an ignored name.
Copied(src, q, ignored) ==
    /\ IsPrefix(src, q)
    /\ \A i \in (Len(src) + 1)..Len(q) : q[i] \notin ignored

\* shutil.copytree(src, dst, ignore=lambda x, y: ignored), src a directory and
\* dst absent.
copytree(fs, src, dst, ignored) ==
    [dirs |-> fs.dirs \cup Prefixes(dst)
                \cup {Rebase(src, dst, q) : q \in {r \in fs.dirs : Copied(src, r, ignored)}},
     files |-> fs.files
                \cup {Rebase(src, dst, q) : q \in {r \in fs.files : Copied(src, r, ignored)}}]

(***************************************************************************)
(* ProjectDataset: the table, as the sequence of its rows in rowid order    *)
(***************************************************************************)
RegisteredNames(reg) == {reg[i].name : i \in 1..Len(reg)}

\* ProjectManager.__contains__
contains(reg, name) == name \in RegisteredNames(reg)

\* ProjectManager.__len__
len(reg) == Len(reg)

\* ProjectDataset.get(ProjectDataset.name == name), for a name that is present.
get(reg, name) == reg[CHOOSE i \in 1..Len(reg) : reg[i].name = name]

\* ProjectDataset.create(attributes=attributes, name=name)
create(reg, name, attributes) ==
    Append(reg, [name |-> name, attributes |-> attributes])

\* ProjectDataset.delete().where(ProjectDataset.name == name).execute()
RECURSIVE delete(_, _)
delete(reg, name) ==
    IF reg = <<>> THEN <<>>
    ELSE IF Head(reg).name = name THEN delete(Tail(reg), name)
    ELSE <<Head(reg)>> \o delete(Tail(reg), name)

(***************************************************************************)
(* The manager.  A handler is an operator from the manager's state         *)
(*   m = [registry, project_name, read_only, fs]                            *)
(* to the outcome [m, exc, ret]: the state the call leaves behind, the      *)
(* exception it raised ("ok" when it returned) and the value it returned.   *)
(***************************************************************************)
Return(m, ret) == [m |-> m, exc |-> "ok", ret |-> ret]

Raise(m, exc) == [m |-> m, exc |-> exc, ret |-> None]

\* ProjectManager._get_base_directories: the pair <<data, logs>>.
\* appdirs puts the log directory below the data directory on win32 and in a
\* tree of its own elsewhere.
_get_base_directories(folder, envdir, platform) ==
    IF folder # None THEN <<StrPath(<<folder>>), StrPath(<<folder, "logs">>)>>
    ELSE IF envdir # None THEN <<StrPath(<<envdir>>), StrPath(<<envdir, "logs">>)>>
    ELSE <<PurePath(<<"user_data_dir">>),
           IF platform = "win32" THEN PurePath(<<"user_data_dir", "Logs">>)
           ELSE PurePath(<<"user_cache_dir", "log">>)>>

\* ProjectManager.current
current(m) == m.project_name

\* ProjectManager.dir, for a manager with a current project.
dir(m) == Join(Path(base_data_dir), safe_filename(current(m)))

\* ProjectManager.logs_dir, for a manager with a current project.
logs_dir(m) == Join(Path(base_logs_dir), safe_filename(current(m)))

\* The directories create_project makes, in the order it makes them.
ProjectTree(m) ==
    <<dir(m)>>
    \o [i \in 1..Len(_basic_directories) |-> Join(dir(m), _basic_directories[i])]
    \o <<logs_dir(m)>>

\* os.makedirs on each path in turn, stopping at the first that raises.
RECURSIVE makedirs_each(_, _)
makedirs_each(m, paths) ==
    IF paths = <<>> THEN Return(m, None)
    ELSE IF makedirs_fails(m.fs, Head(paths).parts) THEN Raise(m, "FileExistsError")
    ELSE makedirs_each([m EXCEPT !.fs = makedirs(@, Head(paths).parts)], Tail(paths))

\* A faulty get-or-create that stores the attributes passed even when the row
\* exists (an upsert).  C7 rejects it.
get_or_replace(reg, name, kwargs) ==
    IF contains(reg, name)
    THEN [i \in 1..Len(reg) |->
            IF reg[i].name = name THEN [reg[i] EXCEPT !.attributes = kwargs] ELSE reg[i]]
    ELSE create(reg, name, kwargs)

\* try: ProjectDataset.get(...)  except DoesNotExist: ProjectDataset.create(...)
get_or_create(reg, name, kwargs) ==
    IF contains(reg, name) THEN reg ELSE create(reg, name, kwargs)

\* A faulty create_project that also makes the created project current.
\* C8 rejects it.
create_project_and_switch(m, name, kwargs) ==
    LET n == IF name # None THEN name ELSE current(m)
    IN  IF n = None THEN Raise(m, "IntegrityError")
        ELSE LET m1 == [m EXCEPT !.registry = get_or_create(@, n, kwargs),
                                 !.project_name = n]
             IN  makedirs_each(m1, ProjectTree(m1))

\* ProjectManager.create_project.  The name column is NOT NULL, so creating a
\* row without a name raises IntegrityError.
create_project(m, name, kwargs) ==
    LET n == IF name # None THEN name ELSE current(m)
    IN  IF n = None THEN Raise(m, "IntegrityError")
        ELSE LET m1 == [m EXCEPT !.registry = get_or_create(@, n, kwargs)]
             IN  IF current(m1) = None THEN Raise(m1, "NoActiveProject")
                 ELSE makedirs_each(m1, ProjectTree(m1))

\* A faulty set_current that moves the pointer without creating the project.
\* C5 rejects it.
set_current_without_create(m, name, kwargs) ==
    Return([m EXCEPT !.project_name = name, !.read_only = FALSE], None)

\* ProjectManager.set_current
set_current(m, name, kwargs) ==
    create_project([m EXCEPT !.project_name = name, !.read_only = FALSE], name, kwargs)

\* The tail of copy_project, from the creation of the new row on.
copy_project_body(m, new_name, switch, fp) ==
    LET m1 == [m EXCEPT !.registry =
                   create(@, new_name, get(m.registry, current(m)).attributes)]
        m2 == [m1 EXCEPT !.fs = copytree(@, dir(m1).parts, fp.parts, {WriteLock})]
        lp == Join(base_logs_dir, safe_filename(new_name))
        m3 == [m2 EXCEPT !.fs = makedirs(@, lp.parts)]
    IN  IF ~is_dir(m1.fs, dir(m1).parts) THEN Raise(m1, "FileNotFoundError")
        ELSE IF ~CanDiv(base_logs_dir) THEN Raise(m2, "TypeError")
        ELSE IF makedirs_fails(m2.fs, lp.parts) THEN Raise(m2, "FileExistsError")
        ELSE IF switch THEN set_current(m3, new_name, NoAttributes)
        ELSE Return(m3, None)

\* ProjectManager.copy_project
copy_project(m, new_name, switch) ==
    LET fp == Join(base_data_dir, safe_filename(new_name))
    IN  IF contains(m.registry, new_name) THEN Raise(m, "ValueError")
        ELSE IF ~CanDiv(base_data_dir) THEN Raise(m, "TypeError")
        ELSE IF exists(m.fs, fp.parts) THEN Raise(m, "ValueError")
        ELSE IF current(m) = None THEN Raise(m, "NoActiveProject")
        ELSE IF ~contains(m.registry, current(m)) THEN Raise(m, "DoesNotExist")
        ELSE copy_project_body(m, new_name, switch, fp)

\* A faulty re-resolution that takes the last row instead of the first.
\* C14 rejects it.
delete_project_tail_last(m, name) ==
    IF name = None \/ name = current(m)
    THEN IF len(m.registry) > 0
         THEN LET r == set_current(m, m.registry[Len(m.registry)].name, NoAttributes)
              IN  IF r.exc = "ok" THEN Return(r.m, current(r.m)) ELSE r
         ELSE Return([m EXCEPT !.project_name = None], None)
    ELSE Return(m, current(m))

\* The end of delete_project: pick the next current project and return it.
delete_project_tail(m, name) ==
    IF name = None \/ name = current(m)
    THEN IF len(m.registry) > 0
         THEN LET r == set_current(m, Head(m.registry).name, NoAttributes)
              IN  IF r.exc = "ok" THEN Return(r.m, current(r.m)) ELSE r
         ELSE Return([m EXCEPT !.project_name = None], None)
    ELSE Return(m, current(m))

\* ProjectManager.delete_project
delete_project(m, name, delete_dir) ==
    IF m.project_name = None THEN Raise(m, "NoActiveProject")
    ELSE LET victim == IF name # None THEN name ELSE current(m)
             m1 == [m EXCEPT !.registry = delete(@, victim)]
             dir_path == Join(base_data_dir, safe_filename(victim))
         IN  IF ~contains(m.registry, victim) THEN Raise(m, "ValueError")
             ELSE IF ~delete_dir THEN delete_project_tail(m1, name)
             ELSE IF ~CanDiv(base_data_dir) THEN Raise(m1, "TypeError")
             ELSE IF ~is_dir(m1.fs, dir_path.parts) THEN Raise(m1, "AssertionError")
             ELSE delete_project_tail([m1 EXCEPT !.fs = rmtree(@, dir_path.parts)], name)

\* ProjectManager.purge_deleted_directories
purge_deleted_directories(m) ==
    LET registered == {safe_filename(n) : n \in RegisteredNames(m.registry)}
        listing == listdir(m.fs, base_data_dir.parts)
        bad_directories ==
            {Append(base_data_dir.parts, dirname) :
                dirname \in {d \in listing :
                    /\ is_dir(m.fs, Append(base_data_dir.parts, d))
                    /\ d \notin registered}}
        removed == [dirs |-> {q \in m.fs.dirs :
                                 \A p \in bad_directories : ~IsPrefix(p, q)},
                    files |-> {q \in m.fs.files :
                                 \A p \in bad_directories : ~IsPrefix(p, q)}]
    IN  IF listing # {} /\ ~CanDiv(base_data_dir) THEN Raise(m, "TypeError")
        ELSE Return([m EXCEPT !.fs = removed], Cardinality(bad_directories))

\* The value False that request_directory returns in place of a path.
False == <<>>

\* ProjectManager.request_directory
request_directory(m, name) ==
    IF current(m) = None THEN Raise(m, "NoActiveProject")
    ELSE LET fp == Join(dir(m), name)
             m1 == [m EXCEPT !.fs = makedirs(@, fp.parts)]
         IN  IF makedirs_fails(m.fs, fp.parts) THEN Raise(m, "FileExistsError")
             ELSE IF ~is_dir(m1.fs, fp.parts) THEN Return(m1, False)
             ELSE Return(m1, fp.parts)

\* A faulty dir that builds the path without looking at the current project.
\* C17 rejects it.
get_dir_unchecked(m) == Return(m, dir(m).parts)

\* ProjectManager.dir, the property: raises without a current project.
get_dir(m) ==
    IF current(m) # None THEN Return(m, dir(m).parts)
    ELSE Raise(m, "NoActiveProject")

\* ProjectManager.logs_dir, the property.
get_logs_dir(m) ==
    IF current(m) # None THEN Return(m, logs_dir(m).parts)
    ELSE Raise(m, "NoActiveProject")

\* ProjectManager.output_dir, read with BRIGHTWAY_OUTPUT_DIR = ep.
get_output_dir(m, ep) ==
    IF ep # None /\ exists(m.fs, <<ep>>) THEN Return(m, <<ep>>)
    ELSE request_directory(m, "output")

\* The lock of the current project: the regular file write-lock in its
\* directory, which copy_project leaves out of the copy.  Taken only when the
\* project directory exists and has no entry of that name.
lock_path(m) == Join(dir(m), WriteLock)

can_lock(m) ==
    /\ current(m) # None
    /\ is_dir(m.fs, dir(m).parts)
    /\ ~exists(m.fs, lock_path(m).parts)

acquire_lock(m) ==
    Return([m EXCEPT !.fs.files = @ \cup {lock_path(m).parts}], None)

(***************************************************************************)
(* The state machine: one action per public call                            *)
(***************************************************************************)
\* The manager's state, as the handlers take it.
Self == [registry |-> registry, project_name |-> project_name,
         read_only |-> read_only, fs |-> [dirs |-> dirs, files |-> files]]

Call(op, name, kwargs, flag, r) ==
    [op |-> op, name |-> name, kwargs |-> kwargs, flag |-> flag,
     exc |-> r.exc, ret |-> r.ret]

\* The call is made on Self and leaves outcome r.
Step(op, name, kwargs, flag, r) ==
    /\ calls < MaxCalls
    /\ calls' = calls + 1
    /\ completed' = (completed /\ r.exc = "ok")
    /\ registry' = r.m.registry
    /\ project_name' = r.m.project_name
    /\ read_only' = r.m.read_only
    /\ dirs' = r.m.fs.dirs
    /\ files' = r.m.fs.files
    /\ pre' = Self
    /\ last' = Call(op, name, kwargs, flag, r)
    /\ UNCHANGED <<base_data_dir, base_logs_dir>>

\* ProjectManager.__init__: resolve and create the base directories, open the
\* database file below the data directory, no current project.
Init ==
    \E folder \in Folders, envdir \in EnvDirs, platform \in Platforms :
        LET base == _get_base_directories(folder, envdir, platform)
            fs0 == makedirs(makedirs([dirs |-> {}, files |-> {}], base[1].parts),
                            base[2].parts)
        IN  /\ base_data_dir = base[1]
            /\ base_logs_dir = base[2]
            /\ registry = <<>>
            /\ project_name = None
            /\ read_only = FALSE
            /\ dirs = fs0.dirs \cup {<<ExistingOutputDir>>}
            /\ files = {Append(base[1].parts, "projects.db")}
            /\ calls = 0
            /\ completed = TRUE
            /\ pre = [registry |-> <<>>, project_name |-> None, read_only |-> FALSE,
                      fs |-> [dirs |-> {}, files |-> {}]]
            /\ last = [op |-> "__init__", name |-> None, kwargs |-> NoAttributes,
                       flag |-> FALSE, exc |-> "ok", ret |-> None]

\* set_current is called with a name only, as the tests call it; attributes
\* are given through create_project.
SetCurrent ==
    \E name \in Names :
        Step("set_current", name, NoAttributes, FALSE,
             set_current(Self, name, NoAttributes))

CreateProject ==
    \E name \in Names \cup {None}, kwargs \in Attributes :
        Step("create_project", name, kwargs, FALSE, create_project(Self, name, kwargs))

CopyProject ==
    \E new_name \in Names, switch \in BOOLEAN :
        Step("copy_project", new_name, NoAttributes, switch,
             copy_project(Self, new_name, switch))

DeleteProject ==
    \E name \in Names \cup {None}, delete_dir \in BOOLEAN :
        Step("delete_project", name, NoAttributes, delete_dir,
             delete_project(Self, name, delete_dir))

PurgeDeletedDirectories ==
    Step("purge_deleted_directories", None, NoAttributes, FALSE,
         purge_deleted_directories(Self))

RequestDirectory ==
    \E name \in RequestNames :
        Step("request_directory", name, NoAttributes, FALSE,
             request_directory(Self, name))

GetDir ==
    Step("dir", None, NoAttributes, FALSE, get_dir(Self))

GetLogsDir ==
    Step("logs_dir", None, NoAttributes, FALSE, get_logs_dir(Self))

\* The value of BRIGHTWAY_OUTPUT_DIR is recorded as the name of the call.
GetOutputDir ==
    \E ep \in OutputDirs :
        Step("output_dir", ep, NoAttributes, FALSE, get_output_dir(Self, ep))

AcquireLock ==
    /\ can_lock(Self)
    /\ Step("lock", None, NoAttributes, FALSE, acquire_lock(Self))

Next ==
    \/ SetCurrent
    \/ CreateProject
    \/ CopyProject
    \/ DeleteProject
    \/ PurgeDeletedDirectories
    \/ RequestDirectory
    \/ GetDir
    \/ GetLogsDir
    \/ GetOutputDir
    \/ AcquireLock

Spec == Init /\ [][Next]_vars

(***************************************************************************)
(* Properties                                                               *)
(***************************************************************************)
Returned == last.exc = "ok"

\* base_data_dir/safe_filename(name) and base_logs_dir/safe_filename(name)
ProjectDir(name) == Append(base_data_dir.parts, safe_filename(name))
LogsDir(name) == Append(base_logs_dir.parts, safe_filename(name))

\* The names of the subdirectories of directory p in filesystem fs.
Subdirectories(fs, p) == {d \in listdir(fs, p) : is_dir(fs, Append(p, d))}

BasicDirectories == {_basic_directories[i] : i \in 1..Len(_basic_directories)}

\* The project directory of name exists with its four fixed subdirectories,
\* and so does its logs directory.
HasProjectTree(name) ==
    /\ ProjectDir(name) \in dirs
    /\ BasicDirectories \subseteq Subdirectories(Self.fs, ProjectDir(name))
    /\ LogsDir(name) \in dirs

\* The number of rows named name.
Count(reg, name) == Cardinality({i \in 1..Len(reg) : reg[i].name = name})

\* C1 (I1): after any sequence of calls that all returned, every registered
\* project name has an existing directory base_data_dir/safe_filename(name).
C1_RegisteredHaveDirectory ==
    completed => \A n \in RegisteredNames(registry) : ProjectDir(n) \in dirs

\* C2: after create_project(name) returns, the tree of the project it was
\* given exists: its directory with the four fixed subdirectories, and its
\* logs directory.
C2_CreateMakesTreeOfName ==
    (last.op = "create_project" /\ Returned /\ last.name # None)
        => HasProjectTree(last.name)

\* C3 (I2): in every reachable state, whether the calls returned or raised, a
\* current project name that is set has a row with exactly that name.
C3_CurrentIsRegistered ==
    project_name # None => contains(registry, project_name)

\* C4 (I4): the root data directory and the root logs directory exist in
\* every reachable state, however the base directories were resolved.
C4_BaseDirectoriesExist ==
    base_data_dir.parts \in dirs /\ base_logs_dir.parts \in dirs

\* C5 (P1): after set_current(name) returns, current is name, the project
\* directory and the logs directory of name exist, and exactly one row is
\* named name.
C5_SetCurrent ==
    (last.op = "set_current" /\ Returned) =>
        /\ project_name = last.name
        /\ is_dir(Self.fs, dir(Self).parts)
        /\ is_dir(Self.fs, logs_dir(Self).parts)
        /\ dir(Self).parts = ProjectDir(last.name)
        /\ logs_dir(Self).parts = LogsDir(last.name)
        /\ Count(registry, last.name) = 1

\* C5 witness: set_current returned for a name that was neither current nor
\* registered, and whose directories did not exist before the call.
C5_Witness ==
    /\ last.op = "set_current" /\ Returned
    /\ pre.project_name \notin {None, last.name}
    /\ ~contains(pre.registry, last.name)
    /\ ProjectDir(last.name) \notin pre.fs.dirs
    /\ LogsDir(last.name) \notin pre.fs.dirs

\* C6: create_project raises NoActiveProject exactly when no name is given
\* and no project is current; with an explicit name it returns.
C6_CreateNoActiveProject ==
    last.op = "create_project" =>
        /\ (last.exc = "NoActiveProject")
              <=> (last.name = None /\ pre.project_name = None)
        /\ last.name # None => Returned

\* The name create_project resolves its argument to.
CreatedName == IF last.name # None THEN last.name ELSE pre.project_name

\* C7 (P2): create_project on a name that is already registered leaves the
\* number of rows and the stored attributes of that row unchanged, whatever
\* attributes the call passes.
C7_CreateIdempotent ==
    (last.op = "create_project" /\ contains(pre.registry, CreatedName)) =>
        /\ len(registry) = len(pre.registry)
        /\ contains(registry, CreatedName)
        /\ get(registry, CreatedName).attributes
              = get(pre.registry, CreatedName).attributes

\* C7 witness: create_project returned on a registered name, passing
\* attributes that differ from the stored ones.
C7_Witness ==
    /\ last.op = "create_project" /\ Returned
    /\ last.name # None
    /\ contains(pre.registry, last.name)
    /\ get(pre.registry, last.name).attributes # last.kwargs

\* C8: create_project never changes the current project; with a project
\* current and name not yet registered, the call adds exactly one row, name
\* is contained afterwards, and current is what it was.
C8_CreateKeepsCurrent ==
    last.op = "create_project" =>
        /\ project_name = pre.project_name
        /\ (pre.project_name # None /\ last.name # None
              /\ ~contains(pre.registry, last.name)) =>
                /\ Returned
                /\ len(registry) = len(pre.registry) + 1
                /\ contains(registry, last.name)

\* C8 witness: a project is current and create_project returned for another
\* name that was not registered.
C8_Witness ==
    /\ last.op = "create_project" /\ Returned
    /\ pre.project_name # None
    /\ last.name \notin {None, pre.project_name}
    /\ ~contains(pre.registry, last.name)

\* Everything at or below directory p in filesystem fs.
Tree(fs, p) == [dirs |-> {q \in fs.dirs : IsPrefix(p, q)},
                files |-> {q \in fs.files : IsPrefix(p, q)}]

\* C9: copy_project(B, switch) from an active, registered project A, with B
\* not registered and B's target directory absent: the call returns, the
\* registry gains exactly one row, named B, with A's attributes; B's directory
\* exists with the subdirectory names of A's except the lock entry; A's row
\* and directory are unchanged; current is B when switch is true, else A.
C9_Copy ==
    (/\ last.op = "copy_project"
     /\ pre.project_name # None
     /\ contains(pre.registry, pre.project_name)
     /\ ~contains(pre.registry, last.name)
     /\ ~exists(pre.fs, ProjectDir(last.name))) =>
        /\ Returned
        /\ registry = Append(pre.registry,
                [name |-> last.name,
                 attributes |-> get(pre.registry, pre.project_name).attributes])
        /\ ProjectDir(last.name) \in dirs
        /\ Subdirectories(Self.fs, ProjectDir(last.name))
              = Subdirectories(pre.fs, ProjectDir(pre.project_name)) \ {WriteLock}
        /\ Tree(Self.fs, ProjectDir(pre.project_name))
              = Tree(pre.fs, ProjectDir(pre.project_name))
        /\ project_name = IF last.flag THEN last.name ELSE pre.project_name

\* C10: with a project active, copy_project(new_name) raises ValueError when
\* new_name is already registered, and also when new_name is not registered
\* but its target directory already exists; registry, directory tree and
\* current project are left as they were.
C10_CopyDuplicate ==
    (/\ last.op = "copy_project"
     /\ pre.project_name # None
     /\ \/ contains(pre.registry, last.name)
        \/ exists(pre.fs, ProjectDir(last.name))) =>
        /\ last.exc = "ValueError"
        /\ Self = pre

\* C11: whenever no project is current, copy_project(new_name) raises
\* NoActiveProject for every new_name and changes nothing.
C11_CopyRequiresProject ==
    (last.op = "copy_project" /\ pre.project_name = None) =>
        /\ last.exc = "NoActiveProject"
        /\ Self = pre

\* The project delete_project is asked to delete.
Victim == IF last.name # None THEN last.name ELSE pre.project_name

\* C12 (P5): delete_project(A, delete_dir) on a registered A removes A's row;
\* A's directory is removed when delete_dir is true and left as it was when
\* it is false; if A was current, current afterwards names another registered
\* project, or is None exactly when no project remains.
C12_Delete ==
    (/\ last.op = "delete_project"
     /\ Victim # None
     /\ contains(pre.registry, Victim)) =>
        /\ ~contains(registry, Victim)
        /\ last.flag => ~exists(Self.fs, ProjectDir(Victim))
        /\ ~last.flag => Tree(Self.fs, ProjectDir(Victim))
                            = Tree(pre.fs, ProjectDir(Victim))
        /\ pre.project_name = Victim =>
              IF registry = <<>> THEN project_name = None
              ELSE project_name \in RegisteredNames(registry) \ {Victim}

\* C13: delete_project raises NoActiveProject only when there is no current
\* project and no name is given; with an explicit registered name and no
\* current project it removes the row; with an unregistered name it raises
\* ValueError and leaves registry, directories and current unchanged.
C13_DeleteErrors ==
    last.op = "delete_project" =>
        /\ last.exc = "NoActiveProject"
              => (pre.project_name = None /\ last.name = None)
        /\ (last.name # None /\ contains(pre.registry, last.name)
              /\ pre.project_name = None) => ~contains(registry, last.name)
        /\ (last.name # None /\ ~contains(pre.registry, last.name)) =>
              (last.exc = "ValueError" /\ Self = pre)

\* The rows left once the victim's row is deleted.
Remaining == delete(pre.registry, Victim)

C15_DeleteFallsBackToDefault ==
    (/\ last.op = "delete_project" /\ Returned
     /\ Victim = pre.project_name
     /\ Victim # "default"
     /\ contains(registry, "default")) =>
        project_name = "default"

\* The immediate subdirectories of the data root that belong to no
\* registered project.
Orphans(m) ==
    {Append(base_data_dir.parts, d) :
        d \in {e \in Subdirectories(m.fs, base_data_dir.parts) :
                  e \notin {safe_filename(n) : n \in RegisteredNames(m.registry)}}}

Below(p, roots) == \E r \in roots : IsPrefix(r, p)

\* C16 (P6): purge_deleted_directories returns, having removed exactly the
\* immediate subdirectories of the data root that belong to no registered
\* project; registry and current are unchanged and the value returned is the
\* number of directories removed.
C16_Purge ==
    last.op = "purge_deleted_directories" =>
        /\ Returned
        /\ dirs = {q \in pre.fs.dirs : ~Below(q, Orphans(pre))}
        /\ files = {q \in pre.fs.files : ~Below(q, Orphans(pre))}
        /\ registry = pre.registry
        /\ project_name = pre.project_name
        /\ last.ret = Cardinality(Orphans(pre))

Accessors == {"dir", "logs_dir", "output_dir"}

\* C17 as stated: with no current project each of dir, logs_dir and
\* output_dir raises NoActiveProject, whatever BRIGHTWAY_OUTPUT_DIR is.
C17_AccessorsRequireProject ==
    (last.op \in Accessors /\ pre.project_name = None) =>
        last.exc = "NoActiveProject"

\* BRIGHTWAY_OUTPUT_DIR was set to an existing path when output_dir was read.
OverrideUsed ==
    /\ last.op = "output_dir"
    /\ last.name # None
    /\ exists(pre.fs, <<last.name>>)

\* C17 amended: with no current project dir and logs_dir raise
\* NoActiveProject, and so does output_dir unless BRIGHTWAY_OUTPUT_DIR names
\* an existing path, which output_dir then returns; nothing changes.
C17_AccessorsAmended ==
    (last.op \in Accessors /\ pre.project_name = None) =>
        /\ Self = pre
        /\ IF OverrideUsed THEN Returned /\ last.ret = <<last.name>>
           ELSE last.exc = "NoActiveProject"

\* C17 witness: output_dir returned the override with no current project.
C17_Witness ==
    /\ last.op = "output_dir"
    /\ pre.project_name = None
    /\ Returned
    /\ last.ret = <<ExistingOutputDir>>

\* The path request_directory was asked for.
RequestedPath == Append(ProjectDir(pre.project_name), last.name)

\* C18: with a project active, request_directory(name) returns False when the
\* path exists and is not a directory, and otherwise returns the path, which
\* is a directory afterwards; it does not raise.
C18_RequestDirectory ==
    (last.op = "request_directory" /\ pre.project_name # None) =>
        /\ Returned
        /\ IF RequestedPath \in pre.fs.files THEN last.ret = False
           ELSE last.ret = RequestedPath /\ RequestedPath \in dirs

\* C19: a freshly constructed manager has no current project and no rows,
\* reading dir without a current project raises NoActiveProject, and only
\* set_current takes the manager out of the state without a current project.
C19_InitialState ==
    /\ calls = 0 => (project_name = None /\ len(registry) = 0)
    /\ (last.op = "dir" /\ pre.project_name = None)
          => last.exc = "NoActiveProject"
    /\ (pre.project_name = None /\ project_name # None)
          => last.op = "set_current"

\* C19 witness: the first call on a fresh manager read dir and raised.
C19_Witness ==
    /\ calls = 1
    /\ last.op = "dir"
    /\ last.exc = "NoActiveProject"
    /\ project_name = None
    /\ len(registry) = 0

\* C20: a create_project, copy_project or delete_project call that raises
\* NoActiveProject leaves registry, directory tree and current as they were.
C20_NoActiveProjectNoEffect ==
    (/\ last.op \in {"create_project", "copy_project", "delete_project"}
     /\ last.exc = "NoActiveProject") =>
        Self = pre

====
